---- MODULE Spec2Model ----
(***************************************************************************)
(* The model-preparation pipeline of iPythonNotebooks/Using_an_SBML_model: *)
(* classify the reactions of a parsed SBML model (cell 3), filter the      *)
(* compounds (cell 5), read a medium (cell 8), reconcile the bounds of the *)
(* uptake/secretion reactions against the medium (cell 9) and call         *)
(* PyFBA.fba.run_fba (cell 10).                                            *)
(*                                                                         *)
(* Reaction objects live in a heap (`heap`) and the dictionaries hold      *)
(* references to them, so that reactions[r] and                            *)
(* uptake_secretion_reactions[r] can be told apart from copies.  A dict is *)
(* visited in an order the notebook does not control: every loop takes its *)
(* next key nondeterministically from the keys not yet visited.            *)
(***************************************************************************)
EXTENDS Integers, Sequences, FiniteSets, TLC

\* ------------------------------------------------------------------ bounds
NumReactions == 2
NumCompounds == 2

ReactionIds == 1..NumReactions
CompoundIds == 1..NumCompounds

\* Python's None, where a Reaction object is expected
None == <<"None">>

\* ----------------------------------------------------------------- strings
\* A str is a sequence of one-character strings.
UpperCase == <<"A","B","C","D","E","F","G","H","I","J","K","L","M",
               "N","O","P","Q","R","S","T","U","V","W","X","Y","Z">>
LowerCase == <<"a","b","c","d","e","f","g","h","i","j","k","l","m",
               "n","o","p","q","r","s","t","u","v","w","x","y","z">>

\* the lower-case letter of each upper-case letter
LowerTable ==
    [ch \in {UpperCase[i] : i \in 1..Len(UpperCase)} |->
        LowerCase[CHOOSE i \in 1..Len(UpperCase) : UpperCase[i] = ch]]

\* one character of str.lower()
LowerChar(ch) == IF ch \in DOMAIN LowerTable THEN LowerTable[ch] ELSE ch

\* str.lower()
Lower(s) == [i \in 1..Len(s) |-> LowerChar(s[i])]

\* sub in s
Contains(sub, s) ==
    \E i \in 0..(Len(s) - Len(sub)) : SubSeq(s, i + 1, i + Len(sub)) = sub

\* the literal 'biomass_equation'
BiomassMarker ==
    <<"b","i","o","m","a","s","s","_","e","q","u","a","t","i","o","n">>

\* 'biomass_equation' in name.lower()
IsBiomassName(name) == Contains(BiomassMarker, Lower(name))

\* Reaction names an SBML file may carry: the marker in mixed case inside a
\* longer name ("R_Biomass_Equation") and a near miss ("biomass equation").
ReactionNames ==
    { <<"R","_","B","i","o","m","a","s","s","_","E","q","u","a","t","i","o","n">>,
      <<"b","i","o","m","a","s","s"," ","e","q","u","a","t","i","o","n">> }

\* Flux bounds of a reaction as the SBML file gives them.
LowerBounds == {-1000, 0}
UpperBounds == {1000}

\* ------------------------------------------------------------------- state
VARIABLES
    sbml_file,                  \* the parsed content of the SBML file
    heap,                       \* address -> Reaction object
    reactions,                  \* reaction id -> address
    all_compounds,              \* compound id -> Compound
    reactions_to_run,           \* set of reaction ids
    uptake_secretion_reactions, \* reaction id -> address (a dict)
    biomass_equation,           \* an address, or None
    filtered_compounds,         \* compound id -> Compound (a dict)
    media,                      \* set of compound ids (empty until cell 8 assigns it)
    fba_calls,                  \* the calls of run_fba so far, each with its arguments
    pending,                    \* keys the running for loop has yet to visit
    pc                          \* the cell being run

vars == <<sbml_file, heap, reactions, all_compounds, reactions_to_run,
          uptake_secretion_reactions, biomass_equation, filtered_compounds,
          media, fba_calls, pending, pc>>

\* the empty dict
EmptyDict == <<>>

\* d[k] = v on a dict
DictSet(d, k, v) == [x \in (DOMAIN d) \cup {k} |-> IF x = k THEN v ELSE d[x]]

\* The address of the Reaction object the loader builds for reaction id r.
AddrOf(r) == <<"Reaction", r>>

ReactionRecords ==
    [name : ReactionNames,
     compounds : SUBSET CompoundIds,
     lower_bound : LowerBounds,
     upper_bound : UpperBounds,
     is_uptake_secretion : {FALSE}]

CompoundRecords == [uptake_secretion : BOOLEAN]

\* PyFBA.parse.parse_sbml_file: any reactions over the model's compounds.
SbmlFiles ==
    [reactions : [ReactionIds -> ReactionRecords],
     compounds : [CompoundIds -> CompoundRecords]]

\* Reaction and compound ids are labels the loader hands out, and every loop
\* below visits its keys in any order: a file and the same file with its
\* ids renamed behave alike.  Of each such family Init takes the member
\* whose reactions are listed in ascending ReactionRank and whose flagged
\* compounds carry the highest ids.
RECURSIVE SetCode(_)
SetCode(S) ==
    IF S = {} THEN 0
    ELSE LET c == CHOOSE x \in S : TRUE
         IN  2 ^ (c - 1) + SetCode(S \ {c})

ReactionRank(rec) ==
    (Len(rec.name) * 2 ^ NumCompounds + SetCode(rec.compounds)) * 2
        + (IF rec.lower_bound < 0 THEN 1 ELSE 0)

Canonical(f) ==
    /\ \A r \in ReactionIds \ {NumReactions} :
           ReactionRank(f.reactions[r]) <= ReactionRank(f.reactions[r + 1])
    /\ \A c \in CompoundIds \ {NumCompounds} :
           f.compounds[c].uptake_secretion => f.compounds[c + 1].uptake_secretion

\* Reaction.all_compounds(): the compounds of the object at address a
AllCompoundsOf(a) == heap[a].compounds

Init ==
    /\ sbml_file \in SbmlFiles
    /\ Canonical(sbml_file)
    /\ heap = [a \in {AddrOf(r) : r \in ReactionIds} |->
                 sbml_file.reactions[CHOOSE r \in ReactionIds : AddrOf(r) = a]]
    /\ reactions = [r \in ReactionIds |-> AddrOf(r)]
    /\ all_compounds = sbml_file.compounds
    /\ reactions_to_run = {}
    /\ uptake_secretion_reactions = EmptyDict
    /\ biomass_equation = None
    /\ filtered_compounds = EmptyDict
    /\ media = {}
    /\ fba_calls = <<>>
    /\ pending = DOMAIN reactions
    /\ pc = "classify"

\* ------------------------------------------------------- cell 3: classify
\* the inner loop over reactions[r].all_compounds()
IsBoundaryAll(r) ==
    \A c \in AllCompoundsOf(reactions[r]) : all_compounds[c].uptake_secretion

IsBoundary(r) ==
    \E c \in AllCompoundsOf(reactions[r]) : all_compounds[c].uptake_secretion

\* the two branches below the biomass test
ClassifyReaction(r) ==
    IF IsBoundary(r)
    THEN /\ heap' = [heap EXCEPT ![reactions[r]].is_uptake_secretion = TRUE]
         /\ uptake_secretion_reactions' =
                DictSet(uptake_secretion_reactions, r, reactions[r])
         /\ UNCHANGED reactions_to_run
    ELSE /\ reactions_to_run' = reactions_to_run \cup {r}
         /\ UNCHANGED <<heap, uptake_secretion_reactions>>

\* one iteration, with the biomass reaction falling through to the
\* classification instead of `continue`
ClassifyStepNoContinue(r) ==
    /\ pc = "classify"
    /\ r \in pending
    /\ biomass_equation' =
           IF IsBiomassName(heap[reactions[r]].name)
           THEN reactions[r] ELSE biomass_equation
    /\ ClassifyReaction(r)
    /\ pending' = pending \ {r}
    /\ UNCHANGED <<sbml_file, reactions, all_compounds, filtered_compounds,
                   media, fba_calls, pc>>

\* one iteration, with `break` in the place of `continue`
ClassifyStepBreak(r) ==
    /\ pc = "classify"
    /\ r \in pending
    /\ IF IsBiomassName(heap[reactions[r]].name)
       THEN /\ biomass_equation' = reactions[r]
            /\ pending' = {}
            /\ UNCHANGED <<heap, uptake_secretion_reactions, reactions_to_run>>
       ELSE /\ ClassifyReaction(r)
            /\ pending' = pending \ {r}
            /\ UNCHANGED biomass_equation
    /\ UNCHANGED <<sbml_file, reactions, all_compounds, filtered_compounds,
                   media, fba_calls, pc>>

\* one iteration of `for r in reactions`
ClassifyStep(r) ==
    /\ pc = "classify"
    /\ r \in pending
    /\ IF IsBiomassName(heap[reactions[r]].name)
       THEN /\ biomass_equation' = reactions[r]
            /\ UNCHANGED <<heap, uptake_secretion_reactions, reactions_to_run>>
       ELSE /\ ClassifyReaction(r)
            /\ UNCHANGED biomass_equation
    /\ pending' = pending \ {r}
    /\ UNCHANGED <<sbml_file, reactions, all_compounds, filtered_compounds,
                   media, fba_calls, pc>>

\* the loop ends; cell 4 prints; cell 5 starts its loop over all_compounds
StartFilter ==
    /\ pc = "classify"
    /\ pending = {}
    /\ filtered_compounds' = EmptyDict
    /\ pending' = DOMAIN all_compounds
    /\ pc' = "filter"
    /\ UNCHANGED <<sbml_file, heap, reactions, all_compounds, reactions_to_run,
                   uptake_secretion_reactions, biomass_equation, media, fba_calls>>

\* --------------------------------------------------------- cell 5: filter
\* the filter with its test left out
FilterStepKeepAll(c) ==
    /\ pc = "filter"
    /\ c \in pending
    /\ filtered_compounds' = DictSet(filtered_compounds, c, all_compounds[c])
    /\ pending' = pending \ {c}
    /\ UNCHANGED <<sbml_file, heap, reactions, all_compounds, reactions_to_run,
                   uptake_secretion_reactions, biomass_equation, media,
                   fba_calls, pc>>

\* the filter with its test inverted
FilterStepInverted(c) ==
    /\ pc = "filter"
    /\ c \in pending
    /\ filtered_compounds' =
           IF all_compounds[c].uptake_secretion
           THEN DictSet(filtered_compounds, c, all_compounds[c])
           ELSE filtered_compounds
    /\ pending' = pending \ {c}
    /\ UNCHANGED <<sbml_file, heap, reactions, all_compounds, reactions_to_run,
                   uptake_secretion_reactions, biomass_equation, media,
                   fba_calls, pc>>

\* one iteration of `for c in all_compounds`
FilterStep(c) ==
    /\ pc = "filter"
    /\ c \in pending
    /\ filtered_compounds' =
           IF ~ all_compounds[c].uptake_secretion
           THEN DictSet(filtered_compounds, c, all_compounds[c])
           ELSE filtered_compounds
    /\ pending' = pending \ {c}
    /\ UNCHANGED <<sbml_file, heap, reactions, all_compounds, reactions_to_run,
                   uptake_secretion_reactions, biomass_equation, media,
                   fba_calls, pc>>

\* ----------------------------------------------------- cell 8: the medium
\* the loop of cell 5 ends; cells 6 and 7 print; cell 8 reads the medium
\* and corrects its names to compounds of the model; cell 9 starts its loop
ReadMedia ==
    /\ pc = "filter"
    /\ pending = {}
    /\ media' \in SUBSET CompoundIds
    /\ pending' = DOMAIN uptake_secretion_reactions
    /\ pc' = "reconcile"
    /\ UNCHANGED <<sbml_file, heap, reactions, all_compounds, reactions_to_run,
                   uptake_secretion_reactions, biomass_equation,
                   filtered_compounds, fba_calls>>

\* ------------------------------------------------------ cell 9: reconcile
\* the inner loop over uptake_secretion_reactions[u].all_compounds()
IsMediaComponentAlways(u) == TRUE

IsMediaComponent(u) ==
    \E c \in AllCompoundsOf(uptake_secretion_reactions[u]) : c \in media

\* the two assignments of 0.0, made to both bounds
ClampBoth(h, u) ==
    LET h1 == [h EXCEPT ![reactions[u]].lower_bound = 0,
                        ![reactions[u]].upper_bound = 0]
    IN  [h1 EXCEPT ![uptake_secretion_reactions[u]].lower_bound = 0,
                   ![uptake_secretion_reactions[u]].upper_bound = 0]

\* the two assignments of 0.0, made to the upper bound
ClampUpper(h, u) ==
    LET h1 == [h EXCEPT ![reactions[u]].upper_bound = 0]
    IN  [h1 EXCEPT ![uptake_secretion_reactions[u]].upper_bound = 0]

\* reactions[u].lower_bound = 0.0; uptake_secretion_reactions[u].lower_bound = 0.0
Clamp(h, u) ==
    LET h1 == [h EXCEPT ![reactions[u]].lower_bound = 0]
    IN  [h1 EXCEPT ![uptake_secretion_reactions[u]].lower_bound = 0]

\* one iteration of `for u in uptake_secretion_reactions`
ReconcileStep(u) ==
    /\ pc = "reconcile"
    /\ u \in pending
    /\ heap' = IF ~ IsMediaComponent(u) THEN Clamp(heap, u) ELSE heap
    /\ pending' = pending \ {u}
    /\ UNCHANGED <<sbml_file, reactions, all_compounds, reactions_to_run,
                   uptake_secretion_reactions, biomass_equation,
                   filtered_compounds, media, fba_calls, pc>>

\* ------------------------------------------------------- cell 10: run_fba
\* the call of PyFBA.fba.run_fba, whatever biomass_equation holds
RunFBA ==
    /\ pc = "reconcile"
    /\ pending = {}
    /\ fba_calls' = Append(fba_calls,
                           [compounds |-> filtered_compounds,
                            reactions |-> reactions,
                            reactions_to_run |-> reactions_to_run,
                            media |-> media,
                            biomass_equation |-> biomass_equation,
                            uptake_secretion_reactions |->
                                uptake_secretion_reactions])
    /\ pc' = "done"
    /\ UNCHANGED <<sbml_file, heap, reactions, all_compounds, reactions_to_run,
                   uptake_secretion_reactions, biomass_equation,
                   filtered_compounds, media, pending>>

Next ==
    \/ \E r \in ReactionIds : ClassifyStep(r)
    \/ StartFilter
    \/ \E c \in CompoundIds : FilterStep(c)
    \/ ReadMedia
    \/ \E u \in ReactionIds : ReconcileStep(u)
    \/ RunFBA

Spec == Init /\ [][Next]_vars

\* ------------------------------------------------------------- vocabulary
\* the keys of uptake_secretion_reactions
BoundaryIds == DOMAIN uptake_secretion_reactions

\* the ids of the reaction biomass_equation holds (none while it is None)
BiomassIds == {r \in ReactionIds : reactions[r] = biomass_equation}

\* the names, among those a file may carry, that the test of line 99 takes
\* for the biomass reaction's
BiomassNames == {n \in ReactionNames : IsBiomassName(n)}

\* the reactions of the file whose name carries the marker
BiomassNamed ==
    {r \in ReactionIds : sbml_file.reactions[r].name \in BiomassNames}

\* the compounds reaction r references, and whether one of them is flagged
CompoundsOf(r) == heap[reactions[r]].compounds

HasFlaggedCompound(r) ==
    \E c \in CompoundsOf(r) : all_compounds[c].uptake_secretion

InMedia(r) == \E c \in CompoundsOf(r) : c \in media

FlaggedCompounds == {c \in CompoundIds : all_compounds[c].uptake_secretion}

\* the loop of cell 3, of cell 5, of cell 9 has run over all its keys
AfterClassify == pc # "classify" \/ pending = {}

AfterFilter == pc \in {"reconcile", "done"} \/ (pc = "filter" /\ pending = {})

AfterReconcile == pc = "done" \/ (pc = "reconcile" /\ pending = {})

\* the loop of cell 3 has just ended
ClassifyEnds == pc = "classify" /\ pending = {}

PairwiseDisjoint ==
    /\ BoundaryIds \cap reactions_to_run = {}
    /\ BoundaryIds \cap BiomassIds = {}
    /\ reactions_to_run \cap BiomassIds = {}

Classified == BoundaryIds \cup reactions_to_run \cup BiomassIds

C2_BoundaryIffFlaggedCompound ==
    AfterClassify =>
        \A r \in ReactionIds : r \in BoundaryIds <=> HasFlaggedCompound(r)

\* C2 amended: after classification every reaction whose name does not carry
\* the biomass marker is a key of uptake_secretion_reactions iff one of its
\* compounds is flagged; a biomass-named reaction never is, flagged
\* compounds or not.
C2_BoundaryIffFlaggedUnlessBiomass ==
    AfterClassify =>
        \A r \in ReactionIds :
            IF r \in BiomassNamed
            THEN r \notin BoundaryIds
            ELSE r \in BoundaryIds <=> HasFlaggedCompound(r)

C2_Witness ==
    /\ AfterClassify
    /\ \E r \in BiomassNamed : HasFlaggedCompound(r) /\ r \notin BoundaryIds
    /\ \E r \in BoundaryIds :
           /\ HasFlaggedCompound(r)
           /\ \E c \in CompoundsOf(r) : ~ all_compounds[c].uptake_secretion

\* ---------------------------------------------------------------------- C3
\* C3: after the reconciliation loop a boundary reaction with no compound in
\* the medium has lower bound 0.0, whatever the file gave it, and a boundary
\* reaction with a compound in the medium has the bounds the file gave it.
C3_ReconciledBounds ==
    AfterReconcile =>
        \A u \in BoundaryIds :
            IF InMedia(u)
            THEN /\ heap[reactions[u]].lower_bound
                        = sbml_file.reactions[u].lower_bound
                 /\ heap[reactions[u]].upper_bound
                        = sbml_file.reactions[u].upper_bound
            ELSE heap[reactions[u]].lower_bound = 0

C3_Witness ==
    /\ AfterReconcile
    /\ \E u \in BoundaryIds :
           /\ ~ InMedia(u)
           /\ sbml_file.reactions[u].lower_bound < 0
           /\ heap[reactions[u]].lower_bound = 0
    /\ \E u \in BoundaryIds :
           /\ InMedia(u)
           /\ heap[reactions[u]].lower_bound < 0

\* ---------------------------------------------------------------------- C4
\* C4 as stated: run_fba is only ever called with an objective reaction; with
\* biomass_equation None the pipeline ends in an error before the call.
C4_SolverOnlyWithObjective ==
    \A i \in DOMAIN fba_calls : fba_calls[i].biomass_equation # None

\* ---------------------------------------------------------------------- C5
\* C5: after the filter loop the keys of filtered_compounds are the compounds
\* whose flag is false, each with the entry all_compounds has for it.
C5_FilteredIsUnflaggedSubMapping ==
    AfterFilter =>
        /\ DOMAIN filtered_compounds = CompoundIds \ FlaggedCompounds
        /\ \A c \in DOMAIN filtered_compounds :
               filtered_compounds[c] = all_compounds[c]

C5_Witness ==
    /\ AfterFilter
    /\ FlaggedCompounds # {}
    /\ DOMAIN filtered_compounds # {}
    /\ \A c \in FlaggedCompounds : c \notin DOMAIN filtered_compounds

\* ---------------------------------------------------------------------- C6
\* What the file alone, whatever the order of the visit, says the
\* classification is.
ExpectedBoundary ==
    {r \in ReactionIds \ BiomassNamed :
        \E c \in sbml_file.reactions[r].compounds :
            sbml_file.compounds[c].uptake_secretion}

ExpectedRunnable == (ReactionIds \ BiomassNamed) \ ExpectedBoundary

ExpectedBiomass ==
    IF BiomassNamed = {} THEN None
    ELSE AddrOf(CHOOSE r \in BiomassNamed : TRUE)

BoundaryAndRunnableAsExpected ==
    /\ BoundaryIds = ExpectedBoundary
    /\ \A r \in BoundaryIds :
           /\ uptake_secretion_reactions[r] = reactions[r]
           /\ heap[reactions[r]] =
                  [sbml_file.reactions[r] EXCEPT !.is_uptake_secretion = TRUE]
    /\ reactions_to_run = ExpectedRunnable

BoundsAsInFile ==
    \A r \in ReactionIds :
        /\ heap[reactions[r]].lower_bound = sbml_file.reactions[r].lower_bound
        /\ heap[reactions[r]].upper_bound = sbml_file.reactions[r].upper_bound

\* C7 as stated: with no boundary reaction, filtered_compounds is
\* all_compounds and the reconciliation changes no bound.
C7_NoBoundaryMeansNothingFiltered ==
    (AfterReconcile /\ BoundaryIds = {}) =>
        filtered_compounds = all_compounds /\ BoundsAsInFile

\* C7 amended: with no boundary reaction the reconciliation changes no bound
\* and filtered_compounds holds every compound a reaction other than the
\* biomass reaction references; it is all_compounds exactly when no compound
\* is flagged, a flagged compound of the biomass reaction or of no reaction
\* being filtered out all the same.
C7_NoBoundaryKeepsReferencedCompounds ==
    (AfterReconcile /\ BoundaryIds = {}) =>
        /\ BoundsAsInFile
        /\ \A r \in ReactionIds \ BiomassNamed :
               CompoundsOf(r) \subseteq DOMAIN filtered_compounds
        /\ \A c \in DOMAIN filtered_compounds :
               filtered_compounds[c] = all_compounds[c]
        /\ (filtered_compounds = all_compounds <=> FlaggedCompounds = {})

C7_Witness ==
    /\ AfterReconcile
    /\ BoundaryIds = {}
    /\ reactions_to_run # {}
    /\ FlaggedCompounds # {}
    /\ filtered_compounds # all_compounds
    /\ \E r \in reactions_to_run :
           CompoundsOf(r) # {} /\ heap[reactions[r]].lower_bound < 0

\* ---------------------------------------------------------------------- C8
\* compound c is referenced by boundary reactions and by no other reaction
OnlyInBoundaryReactions(c) ==
    /\ \E r \in BoundaryIds : c \in CompoundsOf(r)
    /\ \A r \in ReactionIds \ BoundaryIds : c \notin CompoundsOf(r)

RunnableCompoundsKept ==
    \A r \in reactions_to_run :
        CompoundsOf(r) \subseteq DOMAIN filtered_compounds

ObjectFrame(a) ==
    /\ heap'[a].name = heap[a].name
    /\ heap'[a].compounds = heap[a].compounds
    /\ heap'[a].upper_bound = heap[a].upper_bound
    /\ heap'[a].lower_bound # heap[a].lower_bound =>
           \E u \in BoundaryIds :
               /\ reactions[u] = a
               /\ pc = "reconcile"
               /\ ~ InMedia(u)
               /\ heap'[a].lower_bound = 0
    /\ heap'[a].is_uptake_secretion # heap[a].is_uptake_secretion =>
           /\ heap'[a].is_uptake_secretion
           /\ \E u \in DOMAIN uptake_secretion_reactions' :
                  uptake_secretion_reactions'[u] = a

PassFrame ==
    /\ reactions' = reactions
    /\ all_compounds' = all_compounds
    /\ DOMAIN heap' = DOMAIN heap
    /\ \A a \in DOMAIN heap : ObjectFrame(a)
    /\ pc \in {"reconcile", "done"} => media' = media

\* C9: no step of the pass changes anything but is_uptake_secretion of a
\* reaction classified boundary and lower_bound (to 0.0) of a boundary
\* reaction with no compound in the medium: upper bounds, the bounds of
\* runnable and biomass reactions, the compounds' flags, the keys of both
\* mappings and the medium once read stay as they are.
C9_OnlyFlagAndLowerBoundChange == [][PassFrame]_vars

C9_Witness ==
    /\ pc = "done"
    /\ \E u \in BoundaryIds :
           /\ sbml_file.reactions[u].lower_bound < 0
           /\ heap[reactions[u]].lower_bound = 0
           /\ heap[reactions[u]].upper_bound = sbml_file.reactions[u].upper_bound
           /\ heap[reactions[u]].is_uptake_secretion
    /\ \E r \in ReactionIds \ BoundaryIds :
           /\ heap[reactions[r]].lower_bound < 0
           /\ ~ heap[reactions[r]].is_uptake_secretion

\* --------------------------------------------------------------------- C10
\* the bounds of boundary reaction u read through both dictionaries agree
ViewsAgree(u) ==
    /\ heap[reactions[u]].lower_bound
           = heap[uptake_secretion_reactions[u]].lower_bound
    /\ heap[reactions[u]].upper_bound
           = heap[uptake_secretion_reactions[u]].upper_bound

\* C10: the two views of a boundary reaction never diverge, and run_fba is
\* called only once the reconciliation loop has visited every boundary
\* reaction, with the dictionaries it is handed showing the reconciled
\* bounds: lower bound 0.0 for each boundary reaction with no compound in
\* the medium.
C10_SolverSeesReconciledBounds ==
    /\ \A u \in BoundaryIds : ViewsAgree(u)
    /\ \A i \in DOMAIN fba_calls :
           /\ AfterReconcile
           /\ fba_calls[i].reactions = reactions
           /\ fba_calls[i].uptake_secretion_reactions
                  = uptake_secretion_reactions
           /\ fba_calls[i].media = media
           /\ \A u \in BoundaryIds :
                  ~ InMedia(u) =>
                      /\ heap[fba_calls[i].reactions[u]].lower_bound = 0
                      /\ heap[fba_calls[i].uptake_secretion_reactions[u]]
                             .lower_bound = 0

C10_Witness ==
    /\ Len(fba_calls) = 1
    /\ \E u \in BoundaryIds :
           /\ ~ InMedia(u)
           /\ sbml_file.reactions[u].lower_bound < 0
           /\ heap[fba_calls[1].uptake_secretion_reactions[u]].lower_bound = 0
    /\ \E u \in BoundaryIds : InMedia(u)

====
